---------------------------- MODULE Spec2Model ----------------------------
(***************************************************************************)
(* PuzzleCraft-AI: the puzzle piece engine of                              *)
(* backend/segmentation-service/segmentation.py, as the repository         *)
(* documents it (SOLUTION_SUMMARY.md and the edge compatibility fix        *)
(* summary): global adjacency based edge assignment, the verification      *)
(* loop, and the recalculation of the piece size with its edgeOffsets.     *)
(*                                                                         *)
(* One run of the engine is a chain of steps over one list of pieces:      *)
(*   assign  - one iteration (i, j), i < j, of the nested assignment loop  *)
(*   fill    - sides no adjacency gave a type become flat                  *)
(*   verify  - the verification loop, which logs [WARN] lines              *)
(*   extend  - the size recalculation of one piece                         *)
(*   mask    - the shape mask of one piece                                 *)
(*   done    - the piece list is handed to the caller                      *)
(*                                                                         *)
(* The pieces are consumed by the game board of                            *)
(* frontend/web/src/components/PuzzleGame/PuzzleGameBoard.tsx, which draws *)
(* the outline of a piece from its edges (generatePuzzleShape) and tests   *)
(* two facing edges before it connects two pieces (isEdgeCompatible).      *)
(* The handlers of the board (mouse down, move and up, rotate, shuffle)    *)
(* are the actions of SpecGame.  The polling of a generation task by       *)
(* pollTaskStatus of frontend/web/src/services/aiServiceClient.ts, and by  *)
(* the hooks useRealTimeUpdates and usePuzzleGenerator that call it, are   *)
(* the actions of SpecPolling.                                             *)
(* The reconnecting socket of frontend/web/src/hooks/useWebSocket.ts is    *)
(* SpecSocket, and the play of a puzzle by the hook usePuzzleGame of       *)
(* frontend/web/src/hooks/usePuzzleGame.ts is SpecPlay.                    *)
(***************************************************************************)
EXTENDS Integers, Sequences, FiniteSets

VARIABLES
    regions,    \* the region table the run was started with (never written)
    pieces,     \* the piece records: bbox x1,y1,x2,y2 and width, height
    edges,      \* edges[i][side], the p['edges'] dictionaries
    offsets,    \* offsets[i], p['edgeOffsets'] and the tab size, or NoOffsets
    masks,      \* masks[i], the canvas and the blank ellipse of the mask, or NoMask
    pc,         \* the phase of the run
    loop,       \* <<i, j>>, the iteration the assignment loop is at
    ext,        \* index of the next piece of the size recalculation loop
    warnings,   \* number of [WARN] Edge mismatch lines printed
    writes,     \* history: writes[i][side], the stores the loop made to the side
    reported,   \* history: the adjacency entries the loop acted on, in order
    lastCase,   \* history: per direction, how many of the two facing sides of
                \* the last iteration were set before it (-1: not adjacent)
    boardEdges, \* board: boardEdges[i], the edges of piece i of gameState.pieces
    shapes,     \* board: shapes[i], the outline drawn for piece i, or NoShape
    compat,     \* board: what the edge test said of piece 1 right, piece 2 left
    gamePieces,     \* game: gameState.pieces, the pieces in array order
    selectedPiece,  \* game: the id of the selected piece, 0 for null
    dragOffset,     \* game: from the corner of the selected piece to the pointer
    gameCompleted,  \* game: the gameCompleted flag
    completions,    \* game, history: calls of onPuzzleComplete
    imagesLoaded,   \* game: the imagesLoaded flag
    loadStarts,     \* game, history: runs of loadImages that were started
    hook,           \* polling: the hook that is mounted, "rt", "gen" or "none"
    hookState,      \* polling: the state of the hook
    sessions,       \* polling: one record for each call of pollTaskStatus
    stopPollingRef, \* polling: stopPollingRef.current as a session, 0 for null
    requests,       \* polling: generation requests of generatePuzzle in flight
    assigning,      \* polling: sessions whose stop function is yet to be stored, in order
    retries,        \* polling, history: retries made since the last status update
    sockets,        \* socket: the state of every WebSocket the hook has made
    wsCurrent,      \* socket: ws.current as a socket, 0 for null
    timers,         \* socket: the reconnect timers that are pending
    reconnectAttempts,  \* socket: reconnectAttempts.current
    isConnected,    \* socket: the state isConnected of the hook
    wsMounted,      \* socket: the component of the hook is mounted
    attemptsSinceOpen,  \* socket, history: reconnects since a socket last opened
    puzzleData,     \* play: the state puzzleData of usePuzzleGame
    isLoading,      \* play: the state isLoading
    loadError,      \* play: the state error is not null
    isGameActive,   \* play: the state isGameActive
    isCompleted,    \* play: the state isCompleted
    gameStats,      \* play: the state gameStats
    pendingLoads,   \* play: the calls of loadPuzzle and loadSavedGame awaiting the fetch
    gameCompletions,    \* play, history: calls of onGameComplete since the last restart
    ignoredCalls    \* play, history: the handlers that ignored a call of a completed game

engineVars == <<regions, pieces, edges, offsets, masks, pc, loop, ext, warnings,
                writes, reported, lastCase>>

gameVars == <<gamePieces, selectedPiece, dragOffset, gameCompleted, completions,
              imagesLoaded, loadStarts>>

pollVars == <<hook, hookState, sessions, stopPollingRef, requests, assigning, retries>>

socketVars == <<sockets, wsCurrent, timers, reconnectAttempts, isConnected, wsMounted,
                attemptsSinceOpen>>

playVars == <<puzzleData, isLoading, loadError, isGameActive, isCompleted, gameStats,
              pendingLoads, gameCompletions, ignoredCalls>>

boardVars == <<boardEdges, shapes, compat, gameVars, pollVars, socketVars, playVars>>

vars == <<engineVars, boardVars>>

-----------------------------------------------------------------------------
(* Bounds of the model *)

MaxRegions == 3     \* regions of an irregular region table
MaxRows == 2        \* rows of a grid region table
MaxCols == 3        \* columns of a grid region table
Cell == 10          \* side of a region of an irregular table, in px

(* Program constants *)

Tolerance == 1      \* tolerance = 1
TabDepthNum == 15   \* tab_depth = 0.15, as the fraction 15 / 100
TabDepthDen == 100

Sides == {"top", "right", "bottom", "left"}
EdgeTypes == {"flat", "tab", "blank"}
Unset == "unset"
NoOffsets == [tab |-> -1, left |-> -1, right |-> -1, top |-> -1, bottom |-> -1]
NoMask == [width |-> -1, height |-> -1, radius |-> -1, halfRadius |-> -1]

\* generate_intelligent_puzzle_pieces and the three functions that got the
\* edgeOffsets code later
CreationPaths ==
    {"generate_intelligent_puzzle_pieces", "_create_piece_from_mask",
     "_create_grid_based_pieces", "_create_additional_grid_pieces"}

Abs(n) == IF n < 0 THEN -n ELSE n
Min(a, b) == IF a < b THEN a ELSE b
Max(a, b) == IF a > b THEN a ELSE b

-----------------------------------------------------------------------------
(* The region tables a run may be given *)

Region(x, y, w, h) == [x1 |-> x, y1 |-> y, x2 |-> x + w, y2 |-> y + h]

\* Length of the common part of the spans [a1, a2) and [b1, b2); <= 0 if none.
Overlap(a1, a2, b1, b2) == Min(a2, b2) - Max(a1, b1)

\* Two boxes share no more than a strip as thin as the adjacency tolerance.
RoundingOverlap(p, q) ==
    \/ Overlap(p.x1, p.x2, q.x1, q.x2) <= Tolerance
    \/ Overlap(p.y1, p.y2, q.y1, q.y2) <= Tolerance

\* Irregular tables: boxes of one size whose origins are exact, one pixel
\* short or one pixel over (the rounding of the upstream partitioner), so
\* that two boxes overlap by a rounding strip at most.
XOrigins == {0, 1, Cell, Cell + 1}
YOrigins == {0, 1, Cell}
IrregularRegions == {Region(x, y, Cell, Cell) : x \in XOrigins, y \in YOrigins}
IrregularTables ==
    UNION {{t \in [1..n -> IrregularRegions] :
                \A a, b \in 1..n : a < b => RoundingOverlap(t[a], t[b])} :
              n \in 1..MaxRegions}

\* Grid tables: rows x cols regions in row-major order, every column with
\* its own width, the rows of one height.
Sizes == {2, Cell, 100}

RECURSIVE SumTo(_, _)
SumTo(s, k) == IF k = 0 THEN 0 ELSE s[k] + SumTo(s, k - 1)

GridTable(ws, hs) ==
    LET rows == Len(hs)
        cols == Len(ws)
    IN  [n \in 1..(rows * cols) |->
            LET r == ((n - 1) \div cols) + 1
                c == ((n - 1) % cols) + 1
            IN  Region(SumTo(ws, c - 1), SumTo(hs, r - 1), ws[c], hs[r])]

GridTables ==
    {GridTable(ws, hs) :
        ws \in UNION {[1..c -> Sizes] : c \in 1..MaxCols},
        hs \in {[k \in 1..r |-> h] : r \in 1..MaxRows, h \in Sizes}}

\* Stacked tables: one region of double length beside two regions that share
\* its long side (a T junction of the partition), in every order.
StackedRegions(s) ==
    {{Region(0, 0, s, 2 * s), Region(s, 0, s, s), Region(s, s, s, s)},
     {Region(0, 0, 2 * s, s), Region(0, s, s, s), Region(s, s, s, s)}}

StackedTables ==
    UNION {{t \in [1..3 -> rs] : {t[n] : n \in 1..3} = rs} :
              rs \in UNION {StackedRegions(s) : s \in Sizes}}

\* Degenerate tables: a region of 2 x 2 px beside or above a region of usual
\* size, in both orders.
Tiny == 2

DegenerateRegions ==
    {{Region(0, 0, Tiny, Tiny), Region(Tiny, 0, Cell, Cell)},
     {Region(0, 0, Cell, Cell), Region(Cell, 0, Tiny, Tiny)},
     {Region(0, 0, Tiny, Tiny), Region(0, Tiny, Cell, Cell)},
     {Region(0, 0, Cell, Cell), Region(0, Cell, Tiny, Tiny)}}

DegenerateTables ==
    UNION {{t \in [1..2 -> rs] : {t[1], t[2]} = rs} : rs \in DegenerateRegions}

RegionTables ==
    IrregularTables \cup GridTables \cup StackedTables \cup DegenerateTables

-----------------------------------------------------------------------------
(* Adjacency *)

\* p.right touches q.left
horizontally_adjacent(p, q) ==
    /\ Abs(p.x2 - q.x1) <= Tolerance
    /\ Overlap(p.y1, p.y2, q.y1, q.y2) > 0

\* p.bottom touches q.top
vertically_adjacent(p, q) ==
    /\ Abs(p.y2 - q.y1) <= Tolerance
    /\ Overlap(p.x1, p.x2, q.x1, q.x2) > 0

\* if i >= j: continue
SkipPair(i, j) == i >= j

VerticalHitCopied(ps, i, j) == horizontally_adjacent(ps[i], ps[j])

\* if horizontally_adjacent(p, q):
HorizontalHit(ps, i, j) == horizontally_adjacent(ps[i], ps[j])

\* the similar test for vertical adjacency
VerticalHit(ps, i, j) == vertically_adjacent(ps[i], ps[j])

\* The first iteration (i, j) of the nested loop over 1..n, at or after
\* (i, j), that reaches the adjacency tests; <<0, 0>> when the loop has ended.
RECURSIVE NextPair(_, _, _)
NextPair(i, j, n) ==
    IF i > n THEN <<0, 0>>
    ELSE IF j > n THEN NextPair(i + 1, 1, n)
    ELSE IF SkipPair(i, j) THEN NextPair(i, j + 1, n)
    ELSE <<i, j>>

LoopEnd == <<0, 0>>

-----------------------------------------------------------------------------
(* Edge assignment *)

UnsetEdges == [s \in Sides |-> Unset]

AssignHorizontalAlternating(e, i, j) ==
    IF j % 2 = 0
    THEN [e EXCEPT ![i]["right"] = "tab", ![j]["left"] = "blank"]
    ELSE [e EXCEPT ![i]["right"] = "blank", ![j]["left"] = "tab"]

\* One type for the whole piece: the piece that gets the blank is blank on
\* its right side too.
AssignHorizontalWholePiece(e, i, j) ==
    [e EXCEPT ![i]["right"] = "tab", ![j]["left"] = "blank", ![j]["right"] = "blank"]

\* p['edges']['right'] = 'tab'; q['edges']['left'] = 'blank'
AssignHorizontal(e, i, j) ==
    [e EXCEPT ![i]["right"] = "tab", ![j]["left"] = "blank"]

AssignVerticalBothTab(e, i, j) ==
    [e EXCEPT ![i]["bottom"] = "tab", ![j]["top"] = "tab"]

AssignVerticalByHistory(e, i, j) ==
    IF e[i]["right"] = Unset
    THEN [e EXCEPT ![i]["bottom"] = "tab", ![j]["top"] = "blank"]
    ELSE [e EXCEPT ![i]["bottom"] = "blank", ![j]["top"] = "tab"]

\* Similar logic for vertical adjacency
AssignVertical(e, i, j) ==
    [e EXCEPT ![i]["bottom"] = "tab", ![j]["top"] = "blank"]

AssignedEdgesUntested(e, ps, i, j) ==
    AssignVertical(AssignHorizontal(e, i, j), i, j)

\* The edges after the body of the loop for the pair (i, j)
AssignedEdges(e, ps, i, j) ==
    LET eh == IF HorizontalHit(ps, i, j) THEN AssignHorizontal(e, i, j) ELSE e
    IN  IF VerticalHit(ps, i, j) THEN AssignVertical(eh, i, j) ELSE eh

\* The adjacency entries (A, sideA, B, sideB) the body of the loop acts on for
\* the pair (i, j), in the order of its two tests
PairEntries(ps, i, j) ==
    (IF HorizontalHit(ps, i, j) THEN << <<i, "right", j, "left">> >> ELSE << >>)
    \o
    (IF VerticalHit(ps, i, j) THEN << <<i, "bottom", j, "top">> >> ELSE << >>)

\* The adjacency list of a table: the entries of all the pairs the loop visits
AdjacencyEntries(ps) ==
    UNION {{PairEntries(ps, pr[1], pr[2])[k] :
                k \in 1..Len(PairEntries(ps, pr[1], pr[2]))} :
              pr \in {q \in (DOMAIN ps) \X (DOMAIN ps) : ~SkipPair(q[1], q[2])}}

\* any side still unset is a boundary side: flat
FlatFilled(e) ==
    [i \in DOMAIN e |-> [s \in Sides |-> IF e[i][s] = Unset THEN "flat" ELSE e[i][s]]]

Complementary(e1, e2) ==
    (e1 = "tab" /\ e2 = "blank") \/ (e1 = "blank" /\ e2 = "tab")

\* Number of pairs the verification loop prints an [WARN] Edge mismatch for
Mismatches(e, ps) ==
    Cardinality({pr \in {<<i, j>> : i \in DOMAIN ps, j \in DOMAIN ps} :
                    /\ ~SkipPair(pr[1], pr[2])
                    /\ HorizontalHit(ps, pr[1], pr[2])
                    /\ ~Complementary(e[pr[1]]["right"], e[pr[2]]["left"])})
    +
    Cardinality({pr \in {<<i, j>> : i \in DOMAIN ps, j \in DOMAIN ps} :
                    /\ ~SkipPair(pr[1], pr[2])
                    /\ VerticalHit(ps, pr[1], pr[2])
                    /\ ~Complementary(e[pr[1]]["bottom"], e[pr[2]]["top"])})

-----------------------------------------------------------------------------
(* Size recalculation *)

\* round(num / den), a tie going to the even integer
Rounded(num, den) ==
    LET q == num \div den
        r == num % den
    IN  IF 2 * r < den THEN q
        ELSE IF 2 * r > den THEN q + 1
        ELSE IF q % 2 = 0 THEN q ELSE q + 1

TabSizeRounded(w, h) == Rounded(Min(w, h) * TabDepthNum, TabDepthDen)

TabSizeAtLeastOne(w, h) == Max(1, (Min(w, h) * TabDepthNum) \div TabDepthDen)

\* tab_size = int(min(bbox_width, bbox_height) * tab_depth)
TabSize(w, h) == (Min(w, h) * TabDepthNum) \div TabDepthDen

SideExtBlankGrows(e, s, tab) == IF e[s] \in {"tab", "blank"} THEN tab ELSE 0

\* left_ext = tab_size if p['edges']['left'] == 'tab' else 0
SideExt(e, s, tab) == IF e[s] = "tab" THEN tab ELSE 0

EdgeOffsets(p, e) ==
    LET tab == TabSize(p.x2 - p.x1, p.y2 - p.y1)
    IN  [tab |-> tab,
         left |-> SideExt(e, "left", tab), right |-> SideExt(e, "right", tab),
         top |-> SideExt(e, "top", tab), bottom |-> SideExt(e, "bottom", tab)]

\* A fixed extension of one tab size on every side.
ExtendedFixed(p, o) ==
    [p EXCEPT !.width = (p.x2 - p.x1) + 2 * o.tab,
              !.height = (p.y2 - p.y1) + 2 * o.tab]

\* p['width'] = bbox_width + left_ext + right_ext, and the height likewise
Extended(p, o) ==
    [p EXCEPT !.width = (p.x2 - p.x1) + o.left + o.right,
              !.height = (p.y2 - p.y1) + o.top + o.bottom]

\* Before the edgeOffsets code was added to the three other functions.
PieceOffsetsBeforeFix(f, p, e) ==
    IF f = "generate_intelligent_puzzle_pieces" THEN EdgeOffsets(p, e) ELSE NoOffsets

\* The edgeOffsets the creation function f gives a piece: the same code in
\* generate_intelligent_puzzle_pieces and in the three other functions.
PieceOffsets(f, p, e) == EdgeOffsets(p, e)

-----------------------------------------------------------------------------
(* Shape mask *)

\* The fixed tab_extension on every side.
MaskExtFixed(e, s, tab) == tab

\* top_ext = tab_size if edges.get('top') == 'tab' else 0
MaskExt(e, s, tab) == IF e[s] = "tab" THEN tab ELSE 0

\* The mask of a piece: a canvas of the base rectangle and the extension of
\* each side, and the ellipse (tab_size, tab_size // 2) of its blanks.
Mask(p, e) ==
    LET tab == TabSize(p.x2 - p.x1, p.y2 - p.y1)
    IN  [width |-> (p.x2 - p.x1) + MaskExt(e, "left", tab) + MaskExt(e, "right", tab),
         height |-> (p.y2 - p.y1) + MaskExt(e, "top", tab) + MaskExt(e, "bottom", tab),
         radius |-> tab,
         halfRadius |-> tab \div 2]

-----------------------------------------------------------------------------
(* The run *)

NoHookState ==
    [mounted |-> FALSE, taskId |-> 0, active |-> FALSE, retryCount |-> 0, error |-> FALSE]

\* No hook polls.
NoPolling ==
    /\ hook = "none"
    /\ hookState = NoHookState
    /\ sessions = << >>
    /\ stopPollingRef = 0
    /\ requests = 0
    /\ assigning = << >>
    /\ retries = 0

\* No hook holds a socket.
NoSocket ==
    /\ sockets = << >>
    /\ wsCurrent = 0
    /\ timers = << >>
    /\ reconnectAttempts = 0
    /\ isConnected = FALSE
    /\ wsMounted = FALSE
    /\ attemptsSinceOpen = 0

\* puzzleData is null.
NoPuzzle == [puzzleId |-> 0, pieces |-> << >>]

NoStats == [hintsUsed |-> 0, score |-> 0, piecesMoved |-> 0, piecesRotated |-> 0]

\* No page plays a puzzle.
NoPlay ==
    /\ puzzleData = NoPuzzle
    /\ isLoading = FALSE
    /\ loadError = FALSE
    /\ isGameActive = FALSE
    /\ isCompleted = FALSE
    /\ gameStats = NoStats
    /\ pendingLoads = << >>
    /\ gameCompletions = 0
    /\ ignoredCalls = {}

\* No game is played.
NoGame ==
    /\ gamePieces = << >>
    /\ selectedPiece = 0
    /\ dragOffset = [x |-> 0, y |-> 0]
    /\ gameCompleted = FALSE
    /\ completions = 0
    /\ imagesLoaded = FALSE
    /\ loadStarts = 0

\* No game board is mounted.
NoBoard ==
    /\ boardEdges = << >>
    /\ shapes = << >>
    /\ compat = "unchecked"
    /\ NoGame
    /\ NoPolling
    /\ NoSocket
    /\ NoPlay

PieceOf(r) ==
    [x1 |-> r.x1, y1 |-> r.y1, x2 |-> r.x2, y2 |-> r.y2,
     width |-> r.x2 - r.x1, height |-> r.y2 - r.y1]

Init ==
    /\ regions \in RegionTables
    /\ pieces = [i \in DOMAIN regions |-> PieceOf(regions[i])]
    /\ edges = [i \in DOMAIN regions |-> UnsetEdges]
    /\ offsets = [i \in DOMAIN regions |-> NoOffsets]
    /\ masks = [i \in DOMAIN regions |-> NoMask]
    /\ loop = NextPair(1, 1, Len(regions))
    /\ pc = IF loop = LoopEnd THEN "fill" ELSE "assign"
    /\ ext = 1
    /\ warnings = 0
    /\ writes = [i \in DOMAIN regions |-> [s \in Sides |-> 0]]
    /\ reported = << >>
    /\ lastCase = [h |-> -1, v |-> -1]
    /\ NoBoard

\* One iteration of the assignment loop that passes `if i >= j: continue`.
AssignPair ==
    /\ pc = "assign"
    /\ LET i == loop[1]
           j == loop[2]
           ents == PairEntries(pieces, i, j)
           stored == UNION {{<<ents[k][1], ents[k][2]>>, <<ents[k][3], ents[k][4]>>} :
                               k \in 1..Len(ents)}
           nset(a, sa, b, sb) == (IF edges[a][sa] # Unset THEN 1 ELSE 0)
                                 + (IF edges[b][sb] # Unset THEN 1 ELSE 0)
       IN  /\ edges' = AssignedEdges(edges, pieces, i, j)
           /\ writes' = [a \in DOMAIN writes |-> [s \in Sides |->
                            IF <<a, s>> \in stored THEN writes[a][s] + 1
                            ELSE writes[a][s]]]
           /\ reported' = reported \o ents
           /\ lastCase' =
                [h |-> IF HorizontalHit(pieces, i, j)
                       THEN nset(i, "right", j, "left") ELSE -1,
                 v |-> IF VerticalHit(pieces, i, j)
                       THEN nset(i, "bottom", j, "top") ELSE -1]
           /\ loop' = NextPair(i, j + 1, Len(pieces))
           /\ pc' = IF loop' = LoopEnd THEN "fill" ELSE "assign"
    /\ UNCHANGED <<regions, pieces, offsets, masks, ext, warnings>>
    /\ UNCHANGED boardVars

\* The sides left without a type become flat.
FlatFill ==
    /\ pc = "fill"
    /\ edges' = FlatFilled(edges)
    /\ pc' = "verify"
    /\ UNCHANGED <<regions, pieces, offsets, masks, loop, ext, warnings,
                   writes, reported, lastCase>>
    /\ UNCHANGED boardVars

\* The verification loop: a mismatch is printed, and the run goes on.
Verify ==
    /\ pc = "verify"
    /\ warnings' = Mismatches(edges, pieces)
    /\ pc' = "extend"
    /\ UNCHANGED <<regions, pieces, edges, offsets, masks, loop, ext,
                   writes, reported, lastCase>>
    /\ UNCHANGED boardVars

\* The size recalculation of the piece ext, by the function that creates it.
ExtendPiece ==
    /\ pc = "extend"
    /\ \E f \in CreationPaths :
          LET o == PieceOffsets(f, pieces[ext], edges[ext])
          IN  /\ offsets' = [offsets EXCEPT ![ext] = o]
              /\ pieces' = [pieces EXCEPT ![ext] = Extended(pieces[ext], o)]
    /\ ext' = IF ext = Len(pieces) THEN 1 ELSE ext + 1
    /\ pc' = IF ext = Len(pieces) THEN "mask" ELSE "extend"
    /\ UNCHANGED <<regions, edges, masks, loop, warnings,
                   writes, reported, lastCase>>
    /\ UNCHANGED boardVars

\* The shape mask of the piece ext.
SynthesizeMask ==
    /\ pc = "mask"
    /\ masks' = [masks EXCEPT ![ext] = Mask(pieces[ext], edges[ext])]
    /\ ext' = ext + 1
    /\ pc' = IF ext = Len(pieces) THEN "done" ELSE "mask"
    /\ UNCHANGED <<regions, pieces, edges, offsets, loop, warnings,
                   writes, reported, lastCase>>
    /\ UNCHANGED boardVars

Next == AssignPair \/ FlatFill \/ Verify \/ ExtendPiece \/ SynthesizeMask

Spec == Init /\ [][Next]_vars

-----------------------------------------------------------------------------
(* The size recalculation and the masks of the pieces in any order *)

MaxParallel == 3    \* pieces of a table whose pieces are processed in any order

ParallelTables ==
    {t \in GridTables \cup StackedTables \cup DegenerateTables : Len(t) <= MaxParallel}

\* The edges the assignment loop leaves, from the iteration lp on.
RECURSIVE AssignAll(_, _, _)
AssignAll(e, ps, lp) ==
    IF lp = LoopEnd THEN e
    ELSE AssignAll(AssignedEdges(e, ps, lp[1], lp[2]), ps,
                   NextPair(lp[1], lp[2] + 1, Len(ps)))

\* The size of piece i taken from the width field of the piece before it.
SizeRecalculationFromPrevious(ps, es, i) ==
    LET k == IF i = 1 THEN Len(ps) ELSE i - 1
        tab == (ps[k].width * TabDepthNum) \div TabDepthDen
        p == ps[i]
    IN  [ps EXCEPT ![i] =
            [p EXCEPT !.width = (p.x2 - p.x1) + SideExt(es[i], "left", tab)
                                    + SideExt(es[i], "right", tab),
                      !.height = (p.y2 - p.y1) + SideExt(es[i], "top", tab)
                                    + SideExt(es[i], "bottom", tab)]]

\* The piece list after the size recalculation of piece i: the body of the
\* loop reads the bbox and the edges of piece i only.
SizeRecalculation(ps, es, i) ==
    [ps EXCEPT ![i] = Extended(ps[i], EdgeOffsets(ps[i], es[i]))]

InitParallel ==
    /\ regions \in ParallelTables
    /\ pieces = [i \in DOMAIN regions |-> PieceOf(regions[i])]
    /\ edges = FlatFilled(AssignAll([i \in DOMAIN regions |-> UnsetEdges], pieces,
                                    NextPair(1, 1, Len(regions))))
    /\ offsets = [i \in DOMAIN regions |-> NoOffsets]
    /\ masks = [i \in DOMAIN regions |-> NoMask]
    /\ loop = LoopEnd
    /\ pc = "parallel"
    /\ ext = 1
    /\ warnings = Mismatches(edges, pieces)
    /\ writes = [i \in DOMAIN regions |-> [s \in Sides |-> 0]]
    /\ reported = << >>
    /\ lastCase = [h |-> -1, v |-> -1]
    /\ NoBoard

\* The size recalculation of any piece that has not had it.
ExtendAny ==
    /\ pc = "parallel"
    /\ \E i \in DOMAIN pieces :
          /\ offsets[i] = NoOffsets
          /\ offsets' = [offsets EXCEPT ![i] = EdgeOffsets(pieces[i], edges[i])]
          /\ pieces' = SizeRecalculation(pieces, edges, i)
    /\ UNCHANGED <<regions, edges, masks, pc, loop, ext, warnings,
                   writes, reported, lastCase>>
    /\ UNCHANGED boardVars

\* The mask of any piece that has none.
SynthesizeAny ==
    /\ pc = "parallel"
    /\ \E i \in DOMAIN pieces :
          /\ masks[i] = NoMask
          /\ masks' = [masks EXCEPT ![i] = Mask(pieces[i], edges[i])]
    /\ UNCHANGED <<regions, pieces, edges, offsets, pc, loop, ext, warnings,
                   writes, reported, lastCase>>
    /\ UNCHANGED boardVars

NextParallel == ExtendAny \/ SynthesizeAny

SpecParallel == InitParallel /\ [][NextParallel]_vars

-----------------------------------------------------------------------------
(* The adjacency entries of a table processed in any order *)

AnyOrderTables == {t \in RegionTables : Len(t) <= MaxParallel}

\* The body of the loop for one adjacency entry (A, sideA, B, sideB).
AssignEntry(e, en) ==
    IF en[2] = "right" THEN AssignHorizontal(e, en[1], en[3])
    ELSE AssignVertical(e, en[1], en[3])

InitAnyOrder ==
    /\ regions \in AnyOrderTables
    /\ pieces = [i \in DOMAIN regions |-> PieceOf(regions[i])]
    /\ edges = [i \in DOMAIN regions |-> UnsetEdges]
    /\ offsets = [i \in DOMAIN regions |-> NoOffsets]
    /\ masks = [i \in DOMAIN regions |-> NoMask]
    /\ loop = LoopEnd
    /\ pc = "anyorder"
    /\ ext = 1
    /\ warnings = 0
    /\ writes = [i \in DOMAIN regions |-> [s \in Sides |-> 0]]
    /\ reported = << >>
    /\ lastCase = [h |-> -1, v |-> -1]
    /\ NoBoard

\* Any entry of the adjacency list that has not been processed is.
AssignAnyEntry ==
    /\ pc = "anyorder"
    /\ \E en \in AdjacencyEntries(pieces) \ {reported[k] : k \in DOMAIN reported} :
          /\ edges' = AssignEntry(edges, en)
          /\ reported' = Append(reported, en)
          /\ writes' = [writes EXCEPT ![en[1]][en[2]] = @ + 1, ![en[3]][en[4]] = @ + 1]
    /\ UNCHANGED <<regions, pieces, offsets, masks, pc, loop, ext, warnings, lastCase>>
    /\ UNCHANGED boardVars

\* With every entry processed, the sides left without a type become flat.
FlatFillProcessed ==
    /\ pc = "anyorder"
    /\ AdjacencyEntries(pieces) = {reported[k] : k \in DOMAIN reported}
    /\ edges' = FlatFilled(edges)
    /\ pc' = "ordered"
    /\ UNCHANGED <<regions, pieces, offsets, masks, loop, ext, warnings,
                   writes, reported, lastCase>>
    /\ UNCHANGED boardVars

NextAnyOrder == AssignAnyEntry \/ FlatFillProcessed

SpecAnyOrder == InitAnyOrder /\ [][NextAnyOrder]_vars

-----------------------------------------------------------------------------
(* The edges of the pieces on the game board *)

\* edges of PuzzlePiece: top: 'flat' | 'knob' | 'hole'
DeclaredEdgeNames == {"flat", "knob", "hole"}

\* The values the edges of a piece handed to the board may have: those the
\* engine stores and those the type of a piece declares.
EdgeNames == EdgeTypes \cup DeclaredEdgeNames

NoShape == [s \in Sides |-> "none"]

\* The branch of generatePuzzleShape for one side: the points of a tab that
\* sticks out, of a blank that goes in, or no point (a straight line).
SideShape(edge) ==
    IF edge = "tab" \/ edge = "knob" THEN "out"
    ELSE IF edge = "blank" \/ edge = "hole" THEN "in"
    ELSE "straight"

\* const generatePuzzleShape = (width, height, edges) => points
generatePuzzleShape(es) == [s \in Sides |-> SideShape(es[s])]

\* Any two edges that differ.
isEdgeCompatibleNoFlatTest(edge1, edge2) == edge1 # edge2

\* const isEdgeCompatible = (edge1: string, edge2: string): boolean
isEdgeCompatible(edge1, edge2) ==
    IF edge1 = "flat" \/ edge2 = "flat" THEN FALSE
    ELSE (edge1 = "tab" /\ edge2 = "blank") \/ (edge1 = "blank" /\ edge2 = "tab")

\* Two pieces, the second one to the right of the first: the facing edges and
\* the right edge of the second take any value, the outer edges are flat.
BoardPairs ==
    {<< [top |-> "flat", right |-> r1, bottom |-> "flat", left |-> "flat"],
        [top |-> "flat", right |-> r2, bottom |-> "flat", left |-> l2] >> :
        r1 \in EdgeNames, l2 \in EdgeNames, r2 \in EdgeNames}

InitBoard ==
    /\ boardEdges \in BoardPairs
    /\ shapes = [i \in DOMAIN boardEdges |-> NoShape]
    /\ compat = "unchecked"
    /\ NoGame
    /\ NoPolling
    /\ NoSocket
    /\ NoPlay
    /\ regions = << >>
    /\ pieces = << >>
    /\ edges = << >>
    /\ offsets = << >>
    /\ masks = << >>
    /\ loop = LoopEnd
    /\ pc = "board"
    /\ ext = 1
    /\ warnings = 0
    /\ writes = << >>
    /\ reported = << >>
    /\ lastCase = [h |-> -1, v |-> -1]

\* drawPuzzlePiece: the outline of one piece.
DrawPuzzlePiece ==
    /\ pc = "board"
    /\ \E i \in DOMAIN boardEdges :
          shapes' = [shapes EXCEPT ![i] = generatePuzzleShape(boardEdges[i])]
    /\ UNCHANGED <<boardEdges, compat>>
    /\ UNCHANGED <<gameVars, pollVars, socketVars, playVars>>
    /\ UNCHANGED engineVars

\* checkEdgeCompatibility for the second piece right of the first:
\* isEdgeCompatible(piece1.edges.right, piece2.edges.left)
CheckEdgeCompatibility ==
    /\ pc = "board"
    /\ compat' = IF isEdgeCompatible(boardEdges[1]["right"], boardEdges[2]["left"])
                 THEN "yes" ELSE "no"
    /\ UNCHANGED <<boardEdges, shapes>>
    /\ UNCHANGED <<gameVars, pollVars, socketVars, playVars>>
    /\ UNCHANGED engineVars

NextBoard == DrawPuzzlePiece \/ CheckEdgeCompatibility

SpecBoard == InitBoard /\ [][NextBoard]_vars

-----------------------------------------------------------------------------
(* The game on the board: the handlers of PuzzleGameBoard *)

MaxLoads == 5       \* runs of the image loading effect in one behaviour

connectionDistance == 50    \* const connectionDistance = 50
EdgeTolerance == 20         \* Math.abs(deltaX - w1) < 20

\* The sides of the regions the puzzles of the game are cut from: 100 is
\* also the width loadPuzzle gives a piece that has none.
PieceSizes == {40, 100}

\* What a piece may be off the lattice of the correct positions, in px.
Slacks == {0, 10}

\* Where the pointer takes a piece: the middle of a piece of the least size.
Grab == 20

\* The region tables of the puzzles: a row of two, a row of three and a
\* column of two regions.
GameTables ==
    {GridTable(<<w, w>>, <<w>>) : w \in PieceSizes}
        \cup {GridTable(<<40, 40, 40>>, <<40>>), GridTable(<<40>>, <<40, 40>>)}

\* puzzleData.pieces for a region table, as the engine hands the pieces out
\* and loadPuzzle and the useState initializer of the board complete them.
PuzzlePieces(rs) ==
    [i \in DOMAIN rs |->
        LET ps == [k \in DOMAIN rs |-> PieceOf(rs[k])]
            es == FlatFilled(AssignAll([k \in DOMAIN rs |-> UnsetEdges], ps,
                                       NextPair(1, 1, Len(rs))))[i]
            p == Extended(ps[i], EdgeOffsets(ps[i], es))
        IN  [x |-> 0, y |-> 0, cx |-> rs[i].x1, cy |-> rs[i].y1,
             width |-> p.width, height |-> p.height, edges |-> es,
             rotation |-> 0, isPlaced |-> FALSE, isSelected |-> FALSE,
             zIndex |-> i - 1, connectedPieces |-> << >>]]

\* The points a piece is dropped at: the correct positions of the puzzle,
\* exact or a little below.
Lattice(ps) ==
    {[x |-> ps[i].cx, y |-> ps[i].cy + d] : i \in DOMAIN ps, d \in Slacks}

\* Math.random() * 400, Math.random() * 300 for every piece: the pieces on
\* the correct positions, each moved on by the same number of places.
Layouts(ps) ==
    {[i \in DOMAIN ps |-> ((i - 1 + k) % Len(ps)) + 1] : k \in 0..(Len(ps) - 1)}

\* Math.floor(Math.random() * 4) * 90
ShuffleRotations == {0, 90}

Laid(ps, f) ==
    [i \in DOMAIN ps |-> [ps[i] EXCEPT !.x = ps[f[i]].cx, !.y = ps[f[i]].cy]]

\* The first piece a little below its place.
Lowered(ps, d) == [ps EXCEPT ![1].y = @ + d]

Range(q) == {q[k] : k \in DOMAIN q}

\* [...new Set([...list, id])]
AppendNew(list, id) == IF id \in Range(list) THEN list ELSE Append(list, id)

\* list.indexOf(id)
RECURSIVE IndexOf(_, _, _)
IndexOf(list, id, k) ==
    IF k > Len(list) THEN -1
    ELSE IF list[k] = id THEN k - 1
    ELSE IndexOf(list, id, k + 1)

\* const dfs = (currentId) => ..., with the group found so far
RECURSIVE dfs(_, _, _)
RECURSIVE dfsEach(_, _, _, _)
dfs(currentId, group, ps) ==
    IF currentId \in Range(group) THEN group
    ELSE dfsEach(ps[currentId].connectedPieces, 1, Append(group, currentId), ps)

\* currentPiece.connectedPieces.forEach(connectedId => ...), from index k on
dfsEach(list, k, group, ps) ==
    IF k > Len(list) THEN group
    ELSE dfsEach(list, k + 1, dfs(list[k], group, ps), ps)

\* const getConnectedGroup = (pieceId, pieces): string[]
getConnectedGroup(pieceId, ps) == dfs(pieceId, << >>, ps)

\* const checkEdgeCompatibility = (piece1, piece2): boolean
checkEdgeCompatibility(piece1, piece2) ==
    LET deltaX == piece2.x - piece1.x
        deltaY == piece2.y - piece1.y
    IN  IF Abs(deltaX - piece1.width) < EdgeTolerance /\ Abs(deltaY) < EdgeTolerance
        THEN isEdgeCompatible(piece1.edges["right"], piece2.edges["left"])
        ELSE IF Abs(deltaX + piece2.width) < EdgeTolerance /\ Abs(deltaY) < EdgeTolerance
        THEN isEdgeCompatible(piece1.edges["left"], piece2.edges["right"])
        ELSE IF Abs(deltaY - piece1.height) < EdgeTolerance /\ Abs(deltaX) < EdgeTolerance
        THEN isEdgeCompatible(piece1.edges["bottom"], piece2.edges["top"])
        ELSE IF Abs(deltaY + piece2.height) < EdgeTolerance /\ Abs(deltaX) < EdgeTolerance
        THEN isEdgeCompatible(piece1.edges["top"], piece2.edges["bottom"])
        ELSE FALSE

\* distance > connectionDistance, without the square root
TooFar(piece1, piece2) ==
    (piece1.x - piece2.x) * (piece1.x - piece2.x)
        + (piece1.y - piece2.y) * (piece1.y - piece2.y)
    > connectionDistance * connectionDistance

\* const canConnect = (piece1, piece2): boolean, for pieces with edges
canConnect(piece1, piece2) ==
    IF TooFar(piece1, piece2) THEN FALSE
    ELSE checkEdgeCompatibility(piece1, piece2)

\* The piece a click at the point pt finds: gameState.pieces.find(...), 0 if
\* no piece is there
ClickedPiece(ps, pt) ==
    LET hit(i) ==
            LET w == IF ps[i].rotation % 180 = 0 THEN ps[i].width ELSE ps[i].height
                h == IF ps[i].rotation % 180 = 0 THEN ps[i].height ELSE ps[i].width
            IN  /\ pt.x >= ps[i].x /\ pt.x <= ps[i].x + w
                /\ pt.y >= ps[i].y /\ pt.y <= ps[i].y + h
        hits == {i \in DOMAIN ps : hit(i)}
    IN  IF hits = {} THEN 0 ELSE CHOOSE i \in hits : \A j \in hits : i <= j

\* The points of the canvas that are clicked: the middle of a drop point, and
\* a point far from every piece.
EmptyPoint == [x |-> -1000, y |-> -1000]

ClickPoints(ps) ==
    {[x |-> l.x + Grab, y |-> l.y + Grab] : l \in Lattice(ps)} \cup {EmptyPoint}

MaxZIndex(ps) == CHOOSE z \in {ps[i].zIndex : i \in DOMAIN ps} :
                    \A i \in DOMAIN ps : ps[i].zIndex <= z

\* The image loading effect, which has the dependency [gameState.pieces]: it
\* runs after every render with a new pieces array, and with a piece in the
\* array it calls loadImages().
ImageLoadingEffect ==
    /\ loadStarts < MaxLoads
    /\ loadStarts' = loadStarts + 1
    /\ UNCHANGED imagesLoaded

InitGame ==
    /\ \E rs \in GameTables : \E f \in Layouts(PuzzlePieces(rs)) : \E d \in Slacks :
          gamePieces = Lowered(Laid(PuzzlePieces(rs), f), d)
    /\ selectedPiece = 0
    /\ dragOffset = [x |-> 0, y |-> 0]
    /\ gameCompleted = FALSE
    /\ completions = 0
    /\ imagesLoaded = FALSE
    /\ loadStarts = 1
    /\ NoPolling
    /\ NoSocket
    /\ NoPlay
    /\ boardEdges = << >>
    /\ shapes = << >>
    /\ compat = "unchecked"
    /\ regions = << >>
    /\ pieces = << >>
    /\ edges = << >>
    /\ offsets = << >>
    /\ masks = << >>
    /\ loop = LoopEnd
    /\ pc = "game"
    /\ ext = 1
    /\ warnings = 0
    /\ writes = << >>
    /\ reported = << >>
    /\ lastCase = [h |-> -1, v |-> -1]

NotGameVars == <<engineVars, boardEdges, shapes, compat, pollVars, socketVars, playVars>>

\* await Promise.all(loadPromises); setImagesLoaded(true), of the run of
\* loadImages that ends first
LoadImagesDone ==
    /\ pc = "game"
    /\ loadStarts > 0
    /\ ~imagesLoaded
    /\ imagesLoaded' = TRUE
    /\ UNCHANGED <<gamePieces, selectedPiece, dragOffset, gameCompleted,
                   completions, loadStarts>>
    /\ UNCHANGED NotGameVars

handleMouseDown ==
    /\ pc = "game"
    /\ \E pt \in ClickPoints(gamePieces) :
          LET clicked == ClickedPiece(gamePieces, pt)
          IN  IF clicked # 0 /\ ~gamePieces[clicked].isPlaced
              THEN LET maxZIndex == MaxZIndex(gamePieces)
                       connectedGroup == getConnectedGroup(clicked, gamePieces)
                   IN  /\ selectedPiece' = clicked
                       /\ dragOffset' = [x |-> pt.x - gamePieces[clicked].x,
                                         y |-> pt.y - gamePieces[clicked].y]
                       /\ gamePieces' =
                            [i \in DOMAIN gamePieces |->
                                IF i \in Range(connectedGroup)
                                THEN [gamePieces[i] EXCEPT
                                        !.isSelected = (i = clicked),
                                        !.zIndex = maxZIndex + 1
                                                     + IndexOf(connectedGroup, i, 1)]
                                ELSE [gamePieces[i] EXCEPT !.isSelected = FALSE]]
              ELSE /\ selectedPiece' = 0
                   /\ gamePieces' =
                        [i \in DOMAIN gamePieces |->
                            [gamePieces[i] EXCEPT !.isSelected = FALSE]]
                   /\ UNCHANGED dragOffset
    /\ ImageLoadingEffect
    /\ UNCHANGED <<gameCompleted, completions>>
    /\ UNCHANGED NotGameVars

handleMouseMove ==
    /\ pc = "game"
    /\ selectedPiece # 0
    /\ \E l \in Lattice(gamePieces) :
          LET pointer == [x |-> l.x + dragOffset.x, y |-> l.y + dragOffset.y]
              newX == pointer.x - dragOffset.x
              newY == pointer.y - dragOffset.y
              connectedGroup == getConnectedGroup(selectedPiece, gamePieces)
              deltaX == newX - gamePieces[selectedPiece].x
              deltaY == newY - gamePieces[selectedPiece].y
          IN  gamePieces' =
                [i \in DOMAIN gamePieces |->
                    IF i \in Range(connectedGroup)
                    THEN [gamePieces[i] EXCEPT !.x = @ + deltaX, !.y = @ + deltaY]
                    ELSE gamePieces[i]]
    /\ ImageLoadingEffect
    /\ UNCHANGED <<selectedPiece, dragOffset, gameCompleted, completions>>
    /\ UNCHANGED NotGameVars

\* connectablePieces of handleMouseUp, in the order of the array
ConnectablePieces(ps, sel) ==
    {i \in DOMAIN ps : i # sel /\ ~ps[i].isPlaced /\ canConnect(ps[sel], ps[i])}

\* updatedPieces of handleMouseUp when the piece sel connects to target
Connected(ps, sel, target) ==
    LET dx == ps[target].cx - ps[sel].cx
        dy == ps[target].cy - ps[sel].cy
    IN  [i \in DOMAIN ps |->
            IF i = sel
            THEN [ps[i] EXCEPT !.x = ps[target].x - dx,
                               !.y = ps[target].y - dy,
                               !.connectedPieces = AppendNew(@, target),
                               !.isSelected = FALSE]
            ELSE IF i = target
            THEN [ps[i] EXCEPT !.connectedPieces = AppendNew(@, sel)]
            ELSE [ps[i] EXCEPT !.isSelected = FALSE]]

handleMouseUp ==
    /\ pc = "game"
    /\ selectedPiece # 0
    /\ LET connectable == ConnectablePieces(gamePieces, selectedPiece)
       IN  IF connectable # {}
           THEN LET targetPiece == CHOOSE i \in connectable : \A j \in connectable : i <= j
                    updatedPieces == Connected(gamePieces, selectedPiece, targetPiece)
                    groupSize == Len(getConnectedGroup(selectedPiece, updatedPieces))
                IN  /\ gamePieces' = updatedPieces
                    /\ IF groupSize = Len(gamePieces)
                       THEN /\ gameCompleted' = TRUE
                            /\ completions' = completions + 1
                       ELSE UNCHANGED <<gameCompleted, completions>>
           ELSE /\ gamePieces' =
                     [i \in DOMAIN gamePieces |->
                         [gamePieces[i] EXCEPT !.isSelected = FALSE]]
                /\ UNCHANGED <<gameCompleted, completions>>
    /\ selectedPiece' = 0
    /\ ImageLoadingEffect
    /\ UNCHANGED dragOffset
    /\ UNCHANGED NotGameVars

handleRotatePiece ==
    /\ pc = "game"
    /\ selectedPiece # 0
    /\ LET connectedGroup == getConnectedGroup(selectedPiece, gamePieces)
       IN  gamePieces' =
             [i \in DOMAIN gamePieces |->
                 IF i \in Range(connectedGroup)
                 THEN [gamePieces[i] EXCEPT !.rotation = (@ + 90) % 360]
                 ELSE gamePieces[i]]
    /\ ImageLoadingEffect
    /\ UNCHANGED <<selectedPiece, dragOffset, gameCompleted, completions>>
    /\ UNCHANGED NotGameVars

handleShufflePieces ==
    /\ pc = "game"
    /\ \E f \in Layouts(gamePieces) : \E r \in ShuffleRotations :
          gamePieces' =
            [i \in DOMAIN gamePieces |->
                [Laid(gamePieces, f)[i] EXCEPT !.rotation = r,
                                               !.isPlaced = FALSE,
                                               !.isSelected = FALSE,
                                               !.connectedPieces = << >>]]
    /\ ImageLoadingEffect
    /\ UNCHANGED <<selectedPiece, dragOffset, gameCompleted, completions>>
    /\ UNCHANGED NotGameVars

NextGame ==
    \/ LoadImagesDone
    \/ handleMouseDown
    \/ handleMouseMove
    \/ handleMouseUp
    \/ handleRotatePiece
    \/ handleShufflePieces

SpecGame == InitGame /\ [][NextGame]_vars

-----------------------------------------------------------------------------
(* Polling of a generation task: pollTaskStatus and the hooks that call it *)

MaxSessions == 2    \* calls of pollTaskStatus and generation requests of one hook

maxRetries == 5     \* maxRetries = 5

\* One hook instance is mounted in a behaviour: useRealTimeUpdates or
\* usePuzzleGenerator.
Hooks == {"rt", "gen"}

\* The task ids startPolling is called with.
Tasks == {1, 2}

\* A call of pollTaskStatus.  isPolling is the flag of its closure and at is
\* the place its poll function is at: waiting for the status response, for
\* the timer, for the result response, or ended.  stopped and late are
\* history: the stop function was called, and the callbacks invoked after it.
Session(task) ==
    [task |-> task, isPolling |-> TRUE, at |-> "status", stopped |-> FALSE, late |-> 0]

\* pollTaskStatus: one more session, whose first poll has sent its request.
pollTaskStatus(ss, task) == Append(ss, Session(task))

\* The function pollTaskStatus returns.
StopFn(ss, s) == [ss EXCEPT ![s].isPolling = FALSE, ![s].stopped = TRUE]

\* stopPollingRef.current(), when it is not null.
StopCurrent(ss) == IF stopPollingRef # 0 THEN StopFn(ss, stopPollingRef) ELSE ss

\* n callbacks of session s are invoked.
Invoked(ss, s, n) == [ss EXCEPT ![s].late = IF ss[s].stopped THEN @ + n ELSE @]

\* The callbacks the two hooks hand to pollTaskStatus, as updates of the state.
onUpdate(st) ==
    IF hook = "rt" THEN [st EXCEPT !.error = FALSE, !.retryCount = 0] ELSE st

onComplete(st) == [st EXCEPT !.active = FALSE]

onError(st) == [st EXCEPT !.error = TRUE, !.active = FALSE]

canRetry == hookState.retryCount < maxRetries

InitPolling ==
    /\ hook \in Hooks
    /\ hookState = [NoHookState EXCEPT !.mounted = TRUE]
    /\ sessions = << >>
    /\ stopPollingRef = 0
    /\ requests = 0
    /\ assigning = << >>
    /\ retries = 0
    /\ NoGame
    /\ NoSocket
    /\ NoPlay
    /\ boardEdges = << >>
    /\ shapes = << >>
    /\ compat = "unchecked"
    /\ regions = << >>
    /\ pieces = << >>
    /\ edges = << >>
    /\ offsets = << >>
    /\ masks = << >>
    /\ loop = LoopEnd
    /\ pc = "polling"
    /\ ext = 1
    /\ warnings = 0
    /\ writes = << >>
    /\ reported = << >>
    /\ lastCase = [h |-> -1, v |-> -1]

NotPollVars == <<engineVars, boardEdges, shapes, compat, gameVars, socketVars, playVars>>

\* A response or a timer is a task of the event loop: it runs when no await
\* of pollTaskStatus is left to resume.
EventLoopTurn == assigning = << >>

StatusOutcomes == {"unsuccessful", "thrown", "pending", "completed", "failed"}

\* poll, from the response of getPuzzleStatus on
StatusResponse ==
    /\ pc = "polling"
    /\ EventLoopTurn
    /\ \E s \in DOMAIN sessions : \E outcome \in StatusOutcomes :
          /\ sessions[s].at = "status"
          /\ CASE outcome \in {"unsuccessful", "thrown"} ->
                    /\ sessions' = [Invoked(sessions, s, 1) EXCEPT ![s].at = "end"]
                    /\ hookState' = onError(hookState)
                    /\ UNCHANGED retries
               [] outcome = "pending" ->
                    /\ sessions' = [Invoked(sessions, s, 1) EXCEPT ![s].at = "timer"]
                    /\ hookState' = onUpdate(hookState)
                    /\ retries' = 0
               [] outcome = "completed" ->
                    /\ sessions' = [Invoked(sessions, s, 1) EXCEPT
                                        ![s].at = "result", ![s].isPolling = FALSE]
                    /\ hookState' = onUpdate(hookState)
                    /\ retries' = 0
               [] outcome = "failed" ->
                    /\ sessions' = [Invoked(sessions, s, 2) EXCEPT
                                        ![s].at = "end", ![s].isPolling = FALSE]
                    /\ hookState' = onError(onUpdate(hookState))
                    /\ retries' = 0
    /\ UNCHANGED <<hook, stopPollingRef, requests, assigning>>
    /\ UNCHANGED NotPollVars

\* setTimeout(poll, interval) fires: poll returns if isPolling is false, and
\* sends the next status request otherwise.
TimerFires ==
    /\ pc = "polling"
    /\ EventLoopTurn
    /\ \E s \in DOMAIN sessions :
          /\ sessions[s].at = "timer"
          /\ sessions' = [sessions EXCEPT
                              ![s].at = IF sessions[s].isPolling THEN "status" ELSE "end"]
    /\ UNCHANGED <<hook, hookState, stopPollingRef, requests, assigning, retries>>
    /\ UNCHANGED NotPollVars

\* poll, from the response of getPuzzleResult on
ResultResponse ==
    /\ pc = "polling"
    /\ EventLoopTurn
    /\ \E s \in DOMAIN sessions : \E success \in BOOLEAN :
          /\ sessions[s].at = "result"
          /\ sessions' = [Invoked(sessions, s, 1) EXCEPT ![s].at = "end"]
          /\ hookState' = IF success THEN onComplete(hookState) ELSE onError(hookState)
    /\ UNCHANGED <<hook, stopPollingRef, requests, assigning, retries>>
    /\ UNCHANGED NotPollVars

\* The state startPolling leaves when it awaits pollTaskStatus.
Started(task) ==
    /\ Len(sessions) < MaxSessions
    /\ sessions' = pollTaskStatus(StopCurrent(sessions), task)
    /\ stopPollingRef' = 0
    /\ hookState' = [hookState EXCEPT !.taskId = task, !.active = TRUE,
                                      !.error = FALSE, !.retryCount = 0]
    /\ assigning' = Append(assigning, Len(sessions) + 1)

\* useRealTimeUpdates.startPolling, up to the await
startPolling ==
    /\ pc = "polling"
    /\ hook = "rt"
    /\ hookState.mounted
    /\ \E task \in Tasks : Started(task)
    /\ retries' = 0
    /\ UNCHANGED <<hook, requests>>
    /\ UNCHANGED NotPollVars

\* stopPollingRef.current = stopPollingFn, after the await of either hook.
\* The promise of pollTaskStatus is resolved when it is returned, so the
\* awaits resume in their order and before any response or timer.
StorePollingFn ==
    /\ pc = "polling"
    /\ assigning # << >>
    /\ stopPollingRef' = Head(assigning)
    /\ assigning' = Tail(assigning)
    /\ UNCHANGED <<hook, hookState, sessions, requests, retries>>
    /\ UNCHANGED NotPollVars

\* useRealTimeUpdates.stopPolling
stopPolling ==
    /\ pc = "polling"
    /\ hook = "rt"
    /\ hookState.mounted
    /\ sessions' = StopCurrent(sessions)
    /\ stopPollingRef' = 0
    /\ hookState' = [hookState EXCEPT !.active = FALSE]
    /\ UNCHANGED <<hook, requests, assigning, retries>>
    /\ UNCHANGED NotPollVars

\* useRealTimeUpdates.retry, when it is not refused: a refused call changes
\* no state.
retry ==
    /\ pc = "polling"
    /\ hook = "rt"
    /\ hookState.mounted
    /\ hookState.taskId # 0
    /\ ~(hookState.retryCount >= maxRetries)
    /\ Started(hookState.taskId)
    /\ retries' = retries + 1
    /\ UNCHANGED <<hook, requests>>
    /\ UNCHANGED NotPollVars

\* usePuzzleGenerator.generatePuzzle with a file selected, up to the await of
\* the generation request
generatePuzzle ==
    /\ pc = "polling"
    /\ hook = "gen"
    /\ hookState.mounted
    /\ Len(sessions) + requests < MaxSessions
    /\ sessions' = StopCurrent(sessions)
    /\ hookState' = [hookState EXCEPT !.active = TRUE, !.error = FALSE]
    /\ requests' = requests + 1
    /\ UNCHANGED <<hook, stopPollingRef, assigning, retries>>
    /\ UNCHANGED NotPollVars

\* generatePuzzle, from the response of generateIntelligentPuzzle to the
\* await of pollTaskStatus
GenerateResponse ==
    /\ pc = "polling"
    /\ EventLoopTurn
    /\ requests > 0
    /\ requests' = requests - 1
    /\ \E success \in BOOLEAN :
          IF success
          THEN /\ sessions' = pollTaskStatus(sessions, Len(sessions) + 1)
               /\ hookState' = [hookState EXCEPT !.taskId = Len(sessions) + 1]
               /\ assigning' = Append(assigning, Len(sessions) + 1)
          ELSE /\ hookState' = onError(hookState)
               /\ UNCHANGED <<sessions, assigning>>
    /\ UNCHANGED <<hook, stopPollingRef, retries>>
    /\ UNCHANGED NotPollVars

\* usePuzzleGenerator.cancelGeneration
cancelGeneration ==
    /\ pc = "polling"
    /\ hook = "gen"
    /\ hookState.mounted
    /\ sessions' = StopCurrent(sessions)
    /\ stopPollingRef' = 0
    /\ hookState' = [hookState EXCEPT !.active = FALSE, !.taskId = 0]
    /\ UNCHANGED <<hook, requests, assigning, retries>>
    /\ UNCHANGED NotPollVars

\* The cleanup of the effect of either hook: useRealTimeUpdates calls
\* stopPolling, usePuzzleGenerator calls the stored function and keeps it.
Unmount ==
    /\ pc = "polling"
    /\ hookState.mounted
    /\ sessions' = StopCurrent(sessions)
    /\ stopPollingRef' = IF hook = "rt" THEN 0 ELSE stopPollingRef
    /\ hookState' = [hookState EXCEPT
                         !.mounted = FALSE,
                         !.active = IF hook = "rt" THEN FALSE ELSE @]
    /\ UNCHANGED <<hook, requests, assigning, retries>>
    /\ UNCHANGED NotPollVars

NextPolling ==
    \/ StatusResponse
    \/ TimerFires
    \/ ResultResponse
    \/ startPolling
    \/ StorePollingFn
    \/ stopPolling
    \/ retry
    \/ generatePuzzle
    \/ GenerateResponse
    \/ cancelGeneration
    \/ Unmount

SpecPolling == InitPolling /\ [][NextPolling]_vars

-----------------------------------------------------------------------------
(* The WebSocket of a component: the hook useWebSocket *)

MaxSockets == 3     \* sockets not yet closed and pending reconnect timers of one hook

maxReconnectAttempts == 5   \* const maxReconnectAttempts = 5

Slots == 1..MaxSockets

RECURSIVE Pow2(_)
Pow2(n) == IF n = 0 THEN 1 ELSE 2 * Pow2(n - 1)

\* Math.min(1000 * Math.pow(2, reconnectAttempts.current), 30000)
ReconnectDelay(n) == Min(1000 * Pow2(n), 30000)

\* The sockets that have not had their close event.
LiveSockets(ss) == {s \in Slots : ss[s] # "closed"}

\* new WebSocket(url): the socket takes the first place a closed one has left.
NewSocket(ss) == CHOOSE s \in Slots : ss[s] = "closed" /\ \A r \in Slots : ss[r] = "closed" => s <= r

\* connect: ws.current is the new socket, which is connecting.
Connecting(ss) == [ss EXCEPT ![NewSocket(ss)] = "connecting"]

\* ws.current?.close(): the close event of the socket follows later.
Closing(ss) ==
    IF wsCurrent # 0 /\ ss[wsCurrent] \in {"connecting", "open"}
    THEN [ss EXCEPT ![wsCurrent] = "closing"]
    ELSE ss

\* clearTimeout(reconnectTimeout.current): the timer set last is cleared, if
\* it is pending.  survived is history: the timer outlived a disconnect.
Cleared(ts) ==
    LET kept == SelectSeq(ts, LAMBDA t : ~t.latest)
    IN  [k \in DOMAIN kept |-> [kept[k] EXCEPT !.survived = TRUE]]

\* reconnectTimeout.current = setTimeout(..., delay), set by the close event
\* of a socket; afterDisconnect is history: disconnect had closed the socket.
Scheduled(ts, afterDisconnect) ==
    Append([k \in DOMAIN ts |-> [ts[k] EXCEPT !.latest = FALSE]],
           [n |-> reconnectAttempts, delay |-> ReconnectDelay(reconnectAttempts),
            afterDisconnect |-> afterDisconnect, survived |-> FALSE, latest |-> TRUE])

RemoveAt(q, k) == [m \in 1..(Len(q) - 1) |-> IF m < k THEN q[m] ELSE q[m + 1]]

\* The hook after its effect has run for the first time.
InitSocket ==
    /\ sockets = [s \in Slots |-> IF s = 1 THEN "connecting" ELSE "closed"]
    /\ wsCurrent = 1
    /\ timers = << >>
    /\ reconnectAttempts = 0
    /\ isConnected = FALSE
    /\ wsMounted = TRUE
    /\ attemptsSinceOpen = 0
    /\ NoGame
    /\ NoPolling
    /\ NoPlay
    /\ boardEdges = << >>
    /\ shapes = << >>
    /\ compat = "unchecked"
    /\ regions = << >>
    /\ pieces = << >>
    /\ edges = << >>
    /\ offsets = << >>
    /\ masks = << >>
    /\ loop = LoopEnd
    /\ pc = "socket"
    /\ ext = 1
    /\ warnings = 0
    /\ writes = << >>
    /\ reported = << >>
    /\ lastCase = [h |-> -1, v |-> -1]

NotSocketVars == <<engineVars, boardEdges, shapes, compat, gameVars, pollVars, playVars>>

\* ws.current.onopen, of any socket the hook has made
SocketOpens ==
    /\ pc = "socket"
    /\ \E s \in Slots :
          /\ sockets[s] = "connecting"
          /\ sockets' = [sockets EXCEPT ![s] = "open"]
    /\ isConnected' = TRUE
    /\ reconnectAttempts' = 0
    /\ attemptsSinceOpen' = 0
    /\ UNCHANGED <<wsCurrent, timers, wsMounted>>
    /\ UNCHANGED NotSocketVars

\* ws.current.onclose, of any socket the hook has made: the connection
\* failed, was lost, or was closed by close().
SocketCloses ==
    /\ pc = "socket"
    /\ \E s \in LiveSockets(sockets) :
          /\ sockets' = [sockets EXCEPT ![s] = "closed"]
          /\ timers' = IF reconnectAttempts < maxReconnectAttempts
                       THEN Scheduled(timers, sockets[s] = "closing")
                       ELSE timers
    /\ isConnected' = FALSE
    /\ UNCHANGED <<wsCurrent, reconnectAttempts, wsMounted, attemptsSinceOpen>>
    /\ UNCHANGED NotSocketVars

\* The callback of a reconnect timer
ReconnectTimerFires ==
    /\ pc = "socket"
    /\ \E k \in DOMAIN timers : timers' = RemoveAt(timers, k)
    /\ reconnectAttempts' = reconnectAttempts + 1
    /\ attemptsSinceOpen' = attemptsSinceOpen + 1
    /\ sockets' = Connecting(sockets)
    /\ wsCurrent' = NewSocket(sockets)
    /\ UNCHANGED <<isConnected, wsMounted>>
    /\ UNCHANGED NotSocketVars

\* What disconnect leaves.
Disconnected ==
    /\ timers' = Cleared(timers)
    /\ reconnectAttempts' = maxReconnectAttempts

\* disconnect, called by the component
disconnect ==
    /\ pc = "socket"
    /\ wsMounted
    /\ Disconnected
    /\ sockets' = Closing(sockets)
    /\ UNCHANGED <<wsCurrent, isConnected, wsMounted, attemptsSinceOpen>>
    /\ UNCHANGED NotSocketVars

\* The effect runs again because connect has changed (url or options):
\* its cleanup calls disconnect, and the effect calls connect.
EffectRerun ==
    /\ pc = "socket"
    /\ wsMounted
    /\ Cardinality(LiveSockets(Closing(sockets))) + Len(Cleared(timers)) < MaxSockets
    /\ Disconnected
    /\ sockets' = Connecting(Closing(sockets))
    /\ wsCurrent' = NewSocket(Closing(sockets))
    /\ UNCHANGED <<isConnected, wsMounted, attemptsSinceOpen>>
    /\ UNCHANGED NotSocketVars

\* The component is unmounted: the cleanup of the effect calls disconnect.
UnmountSocket ==
    /\ pc = "socket"
    /\ wsMounted
    /\ Disconnected
    /\ sockets' = Closing(sockets)
    /\ wsMounted' = FALSE
    /\ UNCHANGED <<wsCurrent, isConnected, attemptsSinceOpen>>
    /\ UNCHANGED NotSocketVars

NextSocket ==
    \/ SocketOpens
    \/ SocketCloses
    \/ ReconnectTimerFires
    \/ disconnect
    \/ EffectRerun
    \/ UnmountSocket

SpecSocket == InitSocket /\ [][NextSocket]_vars

-----------------------------------------------------------------------------
(* The play of a puzzle: the hook usePuzzleGame *)

MaxMoves == 1       \* calls of movePiece, and of rotatePiece, that take effect

\* The puzzles of the server, and the pieces of each of them.
PlayPuzzles == {1, 2}
PieceIds == {1, 2}

\* Math.random() * 400, Math.random() * 300
RandomPositions == {0, 1}

\* The place the pointer takes a piece to.
MovedPosition == 2

\* A piece as loadPuzzle makes it.
LoadedPiece(position) == [position |-> position, rotation |-> 0, isPlaced |-> FALSE]

\* A piece of a saved game: moved, rotated and placed.
SavedPiece == [position |-> MovedPosition, rotation |-> 90, isPlaced |-> TRUE]

\* The saved games: of any puzzle, with all its pieces or the first only.
SaveDatas ==
    {[puzzleId |-> id, pieces |-> [p \in ids |-> SavedPiece], hintsUsed |-> 1, score |-> 50] :
        id \in PlayPuzzles, ids \in {{1}, PieceIds}}

\* No saved game: the load is one of loadPuzzle.
NoSave == [puzzleId |-> 0, pieces |-> << >>, hintsUsed |-> 0, score |-> 0]

\* completionStats.score of completePuzzle
CompletionScores == {0, 100}

\* The handler returns at once; the call is recorded if the game is completed.
Ignored(handler) ==
    ignoredCalls' = IF isCompleted THEN ignoredCalls \cup {handler} ELSE ignoredCalls

InitPlay ==
    /\ puzzleData = NoPuzzle
    /\ isLoading = FALSE
    /\ loadError = FALSE
    /\ isGameActive = FALSE
    /\ isCompleted = FALSE
    /\ gameStats = NoStats
    /\ pendingLoads = << >>
    /\ gameCompletions = 0
    /\ ignoredCalls = {}
    /\ NoGame
    /\ NoPolling
    /\ NoSocket
    /\ boardEdges = << >>
    /\ shapes = << >>
    /\ compat = "unchecked"
    /\ regions = << >>
    /\ pieces = << >>
    /\ edges = << >>
    /\ offsets = << >>
    /\ masks = << >>
    /\ loop = LoopEnd
    /\ pc = "play"
    /\ ext = 1
    /\ warnings = 0
    /\ writes = << >>
    /\ reported = << >>
    /\ lastCase = [h |-> -1, v |-> -1]

NotPlayVars == <<engineVars, boardEdges, shapes, compat, gameVars, pollVars, socketVars>>

\* The page of the hook renders only a loader while isLoading: the board and
\* the buttons that call the handlers are there when nothing is loading.
PageShown == ~isLoading

\* loadPuzzle, up to the await of the fetch
loadPuzzle ==
    /\ pc = "play"
    /\ PageShown
    /\ \E id \in PlayPuzzles :
          pendingLoads' = Append(pendingLoads,
                                 [kind |-> "puzzle", puzzleId |-> id, closure |-> NoPuzzle,
                                  save |-> NoSave])
    /\ isLoading' = TRUE
    /\ loadError' = FALSE
    /\ UNCHANGED <<puzzleData, isGameActive, isCompleted, gameStats, gameCompletions,
                   ignoredCalls>>
    /\ UNCHANGED NotPlayVars

\* loadSavedGame, up to the await of the fetch of its loadPuzzle: closure is
\* the puzzleData of the render the callback was made in.
loadSavedGame ==
    /\ pc = "play"
    /\ PageShown
    /\ \E saveData \in SaveDatas :
          pendingLoads' = Append(pendingLoads,
                                 [kind |-> "saved", puzzleId |-> saveData.puzzleId,
                                  closure |-> puzzleData, save |-> saveData])
    /\ isLoading' = TRUE
    /\ loadError' = FALSE
    /\ UNCHANGED <<puzzleData, isGameActive, isCompleted, gameStats, gameCompletions,
                   ignoredCalls>>
    /\ UNCHANGED NotPlayVars

\* restoredPieces of loadSavedGame
restoredPieces(closure, saveData) ==
    [p \in DOMAIN closure.pieces |->
        IF p \in DOMAIN saveData.pieces THEN saveData.pieces[p] ELSE closure.pieces[p]]

\* The rest of the load k from the response of the fetch on: the rest of
\* loadPuzzle, which catches its errors, and for loadSavedGame the
\* restoration of the saved state.
LoadFinishes(k) ==
    /\ k \in DOMAIN pendingLoads
    /\ \E ok \in BOOLEAN : \E positions \in [PieceIds -> RandomPositions] :
          LET load == pendingLoads[k]
              loaded == [puzzleId |-> load.puzzleId,
                         pieces |-> [p \in PieceIds |-> LoadedPiece(positions[p])]]
              prev == IF ok THEN loaded ELSE puzzleData
              stats == IF ok THEN NoStats ELSE gameStats
              restore == load.kind = "saved" /\ load.closure # NoPuzzle
          IN  /\ puzzleData' =
                    IF restore /\ prev # NoPuzzle
                    THEN [prev EXCEPT !.pieces = restoredPieces(load.closure, load.save)]
                    ELSE prev
              /\ gameStats' =
                    IF restore
                    THEN [stats EXCEPT !.hintsUsed = load.save.hintsUsed,
                                       !.score = load.save.score]
                    ELSE stats
              /\ isGameActive' = IF ok THEN TRUE ELSE isGameActive
              /\ loadError' = IF ok THEN loadError ELSE TRUE
    /\ pendingLoads' = RemoveAt(pendingLoads, k)
    /\ isLoading' = FALSE
    /\ UNCHANGED <<isCompleted, gameCompletions, ignoredCalls>>
    /\ UNCHANGED NotPlayVars

FetchResponse ==
    /\ pc = "play"
    /\ \E k \in DOMAIN pendingLoads : LoadFinishes(k)

PlayingWhenCompleted == puzzleData # NoPuzzle /\ isGameActive

\* if (!puzzleData || !isGameActive || isCompleted) return
Playing == puzzleData # NoPuzzle /\ isGameActive /\ ~isCompleted

movePiece ==
    /\ pc = "play"
    /\ PageShown
    /\ IF Playing
       THEN /\ gameStats.piecesMoved < MaxMoves
            /\ \E pieceId \in PieceIds :
                  puzzleData' = [puzzleData EXCEPT !.pieces[pieceId].position = MovedPosition]
            /\ gameStats' = [gameStats EXCEPT !.piecesMoved = @ + 1]
            /\ UNCHANGED ignoredCalls
       ELSE /\ Ignored("movePiece")
            /\ UNCHANGED <<puzzleData, gameStats>>
    /\ UNCHANGED <<isLoading, loadError, isGameActive, isCompleted, pendingLoads,
                   gameCompletions>>
    /\ UNCHANGED NotPlayVars

rotatePiece ==
    /\ pc = "play"
    /\ PageShown
    /\ IF Playing
       THEN /\ gameStats.piecesRotated < MaxMoves
            /\ \E pieceId \in PieceIds :
                  puzzleData' = [puzzleData EXCEPT
                                     !.pieces[pieceId].rotation = (@ + 90) % 360]
            /\ gameStats' = [gameStats EXCEPT !.piecesRotated = @ + 1]
            /\ UNCHANGED ignoredCalls
       ELSE /\ Ignored("rotatePiece")
            /\ UNCHANGED <<puzzleData, gameStats>>
    /\ UNCHANGED <<isLoading, loadError, isGameActive, isCompleted, pendingLoads,
                   gameCompletions>>
    /\ UNCHANGED NotPlayVars

completePuzzle ==
    /\ pc = "play"
    /\ PageShown
    /\ IF ~isGameActive \/ isCompleted
       THEN /\ Ignored("completePuzzle")
            /\ UNCHANGED <<gameStats, isCompleted, isGameActive, gameCompletions>>
       ELSE /\ \E score \in CompletionScores :
                  gameStats' = [gameStats EXCEPT !.score = IF score # 0 THEN score ELSE @]
            /\ isCompleted' = TRUE
            /\ isGameActive' = FALSE
            /\ gameCompletions' = gameCompletions + 1
            /\ UNCHANGED ignoredCalls
    /\ UNCHANGED <<puzzleData, isLoading, loadError, pendingLoads>>
    /\ UNCHANGED NotPlayVars

pauseGame ==
    /\ pc = "play"
    /\ PageShown
    /\ isGameActive' = FALSE
    /\ UNCHANGED <<puzzleData, isLoading, loadError, isCompleted, gameStats, pendingLoads,
                   gameCompletions, ignoredCalls>>
    /\ UNCHANGED NotPlayVars

resumeGame ==
    /\ pc = "play"
    /\ PageShown
    /\ isGameActive' = IF ~isCompleted THEN TRUE ELSE isGameActive
    /\ UNCHANGED <<puzzleData, isLoading, loadError, isCompleted, gameStats, pendingLoads,
                   gameCompletions, ignoredCalls>>
    /\ UNCHANGED NotPlayVars

restartGame ==
    /\ pc = "play"
    /\ PageShown
    /\ IF puzzleData = NoPuzzle
       THEN UNCHANGED <<puzzleData, gameStats, isCompleted, isGameActive, gameCompletions,
                        ignoredCalls>>
       ELSE /\ \E positions \in [PieceIds -> RandomPositions] :
                  puzzleData' = [puzzleData EXCEPT
                                     !.pieces = [p \in PieceIds |-> LoadedPiece(positions[p])]]
            /\ gameStats' = NoStats
            /\ isCompleted' = FALSE
            /\ isGameActive' = TRUE
            /\ gameCompletions' = 0
            /\ ignoredCalls' = {}
    /\ UNCHANGED <<isLoading, loadError, pendingLoads>>
    /\ UNCHANGED NotPlayVars

NextPlay ==
    \/ loadPuzzle
    \/ loadSavedGame
    \/ FetchResponse
    \/ movePiece
    \/ rotatePiece
    \/ completePuzzle
    \/ pauseGame
    \/ resumeGame
    \/ restartGame

SpecPlay == InitPlay /\ [][NextPlay]_vars

-----------------------------------------------------------------------------
(* Properties of the edge assignment *)

AssignmentComplete == pc \in {"verify", "extend", "mask", "done"}

FacingTypes(en) == <<edges[en[1]][en[2]], edges[en[3]][en[4]]>>

\* C1: once the edge assignment is complete, the two facing sides of every
\* adjacency entry (A, sideA, B, sideB) are complementary: one is tab and the
\* other blank, so they are never equal and neither is flat.
C1_Complementarity ==
    AssignmentComplete =>
        \A en \in AdjacencyEntries(pieces) :
            /\ Complementary(FacingTypes(en)[1], FacingTypes(en)[2])
            /\ FacingTypes(en)[1] # FacingTypes(en)[2]
            /\ "flat" \notin {FacingTypes(en)[1], FacingTypes(en)[2]}

\* A finished run over a table with a horizontal and a vertical entry.
C1_Witness ==
    /\ pc = "done"
    /\ \E en \in AdjacencyEntries(pieces) : en[2] = "right"
    /\ \E en \in AdjacencyEntries(pieces) : en[2] = "bottom"

\* C2: every side slot (region, side) is written at most once by the
\* assignment loop.
C2_WriteOnce ==
    \A i \in DOMAIN writes : \A s \in Sides : writes[i][s] <= 1

\* Some side of some region faces more than one adjacency entry.
Ambiguous(ps) ==
    \E i \in DOMAIN ps : \E s \in Sides :
        Cardinality({en \in AdjacencyEntries(ps) :
                        \/ (en[1] = i /\ en[2] = s)
                        \/ (en[3] = i /\ en[4] = s)}) > 1

\* C4: a table in which a region is adjacent to more than one neighbour on
\* the same side is aborted: no run over such a table hands out pieces.
C4_AmbiguityAborts ==
    pc = "done" => ~Ambiguous(pieces)

\* C5: in the final edge assignment every side that appears in no adjacency
\* entry is flat.
C5_BoundaryFlat ==
    AssignmentComplete =>
        LET entries == AdjacencyEntries(pieces)
            inEntry == {<<en[1], en[2]>> : en \in entries}
                           \cup {<<en[3], en[4]>> : en \in entries}
        IN  \A i \in DOMAIN pieces : \A s \in Sides :
                <<i, s>> \notin inEntry => edges[i][s] = "flat"

\* A finished run in which one region has a side with a neighbour and a side
\* without one.
C5_Witness ==
    /\ pc = "done"
    /\ \E i \in DOMAIN pieces : \E s, t \in Sides :
          /\ edges[i][s] = "flat"
          /\ edges[i][t] # "flat"

\* The edge assignment as a function of the region table alone: a side is
\* tab (right, bottom) or blank (left, top) exactly if some later (earlier)
\* region of the table touches it, and flat otherwise.
ResultEdges(rs) ==
    [i \in DOMAIN rs |->
        [top |-> IF \E a \in 1..(i - 1) : vertically_adjacent(rs[a], rs[i])
                 THEN "blank" ELSE "flat",
         left |-> IF \E a \in 1..(i - 1) : horizontally_adjacent(rs[a], rs[i])
                  THEN "blank" ELSE "flat",
         bottom |-> IF \E b \in (i + 1)..Len(rs) : vertically_adjacent(rs[i], rs[b])
                    THEN "tab" ELSE "flat",
         right |-> IF \E b \in (i + 1)..Len(rs) : horizontally_adjacent(rs[i], rs[b])
                   THEN "tab" ELSE "flat"]]

Complement(t) == IF t = "tab" THEN "blank" ELSE "tab"

\* Of the facing sides with types a and b before the step and a2 and b2
\* after it: if exactly one was set, it is unchanged and the other one is its
\* complement.
OneSetCompleted(a, b, a2, b2) ==
    /\ (a # Unset /\ b = Unset) => (a2 = a /\ b2 = Complement(a))
    /\ (a = Unset /\ b # Unset) => (b2 = b /\ a2 = Complement(b))

\* C7: when the assigner processes an adjacency entry of which exactly one of
\* the two facing sides is already set, it sets the other side to the
\* complement and leaves the set side unchanged.
C7_CompletesSetSide ==
    [][pc = "assign" =>
        \A k \in 1..Len(PairEntries(pieces, loop[1], loop[2])) :
            LET en == PairEntries(pieces, loop[1], loop[2])[k]
            IN  OneSetCompleted(edges[en[1]][en[2]], edges[en[3]][en[4]],
                                edges'[en[1]][en[2]], edges'[en[3]][en[4]])]_vars

\* The loop has just processed an entry of which exactly one side was set.
C7_Witness ==
    /\ lastCase.h = 1 \/ lastCase.v = 1
    /\ Len(reported) > 1
    /\ LET en == reported[Len(reported)]
       IN  Complementary(edges[en[1]][en[2]], edges[en[3]][en[4]])

\* No two boxes of the table overlap.
Disjoint(rs) ==
    \A a, b \in DOMAIN rs :
        a < b => \/ Overlap(rs[a].x1, rs[a].x2, rs[b].x1, rs[b].x2) <= 0
                 \/ Overlap(rs[a].y1, rs[a].y2, rs[b].y1, rs[b].y2) <= 0

\* No unordered pair of regions is reported twice (so none with two side
\* pairs, horizontal and vertical).
ReportedOnce ==
    \A a, b \in 1..Len(reported) :
        a # b => {reported[a][1], reported[a][3]} # {reported[b][1], reported[b][3]}

PieceComplete(i) ==
    /\ \A s \in Sides : edges[i][s] \in EdgeTypes
    /\ offsets[i] # NoOffsets

\* C10: the output is all or nothing: pieces are handed out only by a run
\* without adjacency ambiguity and without edge mismatch, and then every
\* region has its complete piece.
C10_AllOrNothing ==
    pc = "done" =>
        /\ ~Ambiguous(regions)
        /\ warnings = 0
        /\ \A i \in DOMAIN regions : PieceComplete(i)

\* The verification loop never has a mismatch to print.
NoMismatch == warnings = 0

-----------------------------------------------------------------------------
(* Properties of the geometry *)

BaseWidth(r) == r.x2 - r.x1
BaseHeight(r) == r.y2 - r.y1

\* The region is too small for a positive tab size at the tab depth.
Degenerate(r) == Min(BaseWidth(r), BaseHeight(r)) * TabDepthNum < TabDepthDen

\* t is the tab size of a region of r's dimensions: the integer part of
\* min(width, height) * 15 / 100.
IsTabSizeOf(t, r) ==
    /\ t * TabDepthDen <= Min(BaseWidth(r), BaseHeight(r)) * TabDepthNum
    /\ Min(BaseWidth(r), BaseHeight(r)) * TabDepthNum < (t + 1) * TabDepthDen

Populated(i) ==
    /\ \A s \in Sides : edges[i][s] \in EdgeTypes
    /\ \A s \in Sides : offsets[i][s] >= 0
    /\ masks[i] # NoMask
    /\ masks[i].width > 0 /\ masks[i].height > 0

C13_SharedBorderTabSize ==
    pc = "done" =>
        \A en \in AdjacencyEntries(pieces) :
            /\ offsets[en[1]].tab = offsets[en[3]].tab
            /\ masks[en[1]].radius = masks[en[3]].radius
            /\ masks[en[1]].halfRadius = masks[en[3]].halfRadius

\* The size recalculation has reached piece i.
Recalculated(i) == offsets[i] # NoOffsets

\* C14: the edge offset of a side is the tab size of the piece if the side
\* is a tab, and 0 if it is a blank or flat; a blank does not grow the box.
C14_OffsetsByEdgeType ==
    \A i \in DOMAIN pieces :
        Recalculated(i) =>
            /\ \A s \in Sides :
                  /\ edges[i][s] = "tab" => offsets[i][s] = offsets[i].tab
                  /\ edges[i][s] \in {"blank", "flat"} => offsets[i][s] = 0
            /\ (edges[i]["left"] # "tab" /\ edges[i]["right"] # "tab")
                  => pieces[i].width = BaseWidth(regions[i])
            /\ (edges[i]["top"] # "tab" /\ edges[i]["bottom"] # "tab")
                  => pieces[i].height = BaseHeight(regions[i])

\* A recalculated piece with a tab that has an offset and, across it, a
\* blank without one.
C14_Witness ==
    \E i \in DOMAIN pieces :
        /\ Recalculated(i)
        /\ edges[i]["right"] = "tab" /\ offsets[i].right > 0
        /\ edges[i]["left"] = "blank" /\ offsets[i].left = 0
        /\ edges[i]["top"] = "blank" /\ edges[i]["bottom"] = "flat"
        /\ pieces[i].height = BaseHeight(regions[i])

\* Every side of piece i that has an extension has the one tab size of the
\* piece as its extension.
OneTabSize(i) ==
    \A s \in Sides : offsets[i][s] \in {0, offsets[i].tab}

\* C15 as stated: the tab size of a piece is round(min(width, height) * 0.15)
\* and it is the one value used for its four sides.
C15_TabSizeIsRound ==
    \A i \in DOMAIN pieces :
        Recalculated(i) =>
            /\ offsets[i].tab =
                  Rounded(Min(BaseWidth(regions[i]), BaseHeight(regions[i])) * TabDepthNum,
                          TabDepthDen)
            /\ OneTabSize(i)

\* C15 as amended: the tab size of a piece is the integer part of
\* min(width, height) * 0.15 and it is the one value used for its four sides.
C15_TabSizeIsIntegerPart ==
    \A i \in DOMAIN pieces :
        Recalculated(i) =>
            /\ IsTabSizeOf(offsets[i].tab, regions[i])
            /\ OneTabSize(i)

\* A recalculated piece whose tab size is the integer part 1 of 1.5, used
\* on two of its sides.
C15_Witness ==
    \E i \in DOMAIN pieces :
        /\ Recalculated(i)
        /\ 2 * Min(BaseWidth(regions[i]), BaseHeight(regions[i])) * TabDepthNum
              = 3 * TabDepthDen
        /\ offsets[i].tab = 1
        /\ offsets[i].right = 1 /\ offsets[i].bottom = 1

\* C16: the final width of a piece is its base width plus its left and right
\* edge offsets, and its final height the base height plus its top and
\* bottom edge offsets.
C16_SizeConservation ==
    \A i \in DOMAIN pieces :
        Recalculated(i) =>
            /\ pieces[i].width =
                  BaseWidth(regions[i]) + offsets[i].left + offsets[i].right
            /\ pieces[i].height =
                  BaseHeight(regions[i]) + offsets[i].top + offsets[i].bottom

\* A recalculated piece that grew by one tab in width and one in height.
C16_Witness ==
    \E i \in DOMAIN pieces :
        /\ Recalculated(i)
        /\ offsets[i].tab > 0
        /\ pieces[i].width = BaseWidth(regions[i]) + offsets[i].tab
        /\ pieces[i].height = BaseHeight(regions[i]) + offsets[i].tab

\* The mask of piece i has been made.
Synthesized(i) == masks[i] # NoMask

C18_RegionsNotMutated ==
    \A i \in DOMAIN regions :
        /\ pieces[i].x1 = regions[i].x1 /\ pieces[i].y1 = regions[i].y1
        /\ pieces[i].x2 = regions[i].x2 /\ pieces[i].y2 = regions[i].y2
        /\ pieces[i].width = BaseWidth(regions[i])
        /\ pieces[i].height = BaseHeight(regions[i])

\* The piece list after the size recalculation of the pieces 1..k, one after
\* another.
RECURSIVE SequentialPieces(_, _, _)
SequentialPieces(ps, es, k) ==
    IF k = 0 THEN ps ELSE SizeRecalculation(SequentialPieces(ps, es, k - 1), es, k)

\* C19: once the edge assignment is complete, the size recalculation and
\* the mask synthesis of the pieces may be taken in any order and
\* interleaving: whatever has and has not been done to the other pieces, a
\* piece gets the size, the offsets and the mask that processing the pieces
\* one after another gives it, and so does the whole list at the end.
C19_AnyOrderSameResult ==
    LET initial == [i \in DOMAIN regions |-> PieceOf(regions[i])]
        seq == SequentialPieces(initial, edges, Len(regions))
    IN  /\ \A i \in DOMAIN regions :
              /\ pieces[i] = IF Recalculated(i) THEN seq[i] ELSE initial[i]
              /\ Recalculated(i) => offsets[i] = EdgeOffsets(initial[i], edges[i])
              /\ Synthesized(i) => masks[i] = Mask(seq[i], edges[i])
        /\ (\A i \in DOMAIN regions : Recalculated(i) /\ Synthesized(i))
              => pieces = seq

\* An order other than one piece after another: the second piece of three
\* has its size (it grew) before the first one, and the third has its mask
\* before its size.
C19_Witness ==
    /\ pc = "parallel"
    /\ Len(pieces) = 3
    /\ Recalculated(2) /\ ~Synthesized(2)
    /\ pieces[2].width > BaseWidth(regions[2])
    /\ ~Recalculated(1) /\ ~Synthesized(1)
    /\ ~Recalculated(3) /\ Synthesized(3)

-----------------------------------------------------------------------------
(* Properties of the edge names *)

\* C20: the edges of a piece the board has drawn or tested are flat, tab or
\* blank and nothing else, and the outline and the edge test read them the
\* same way: the test accepts two facing edges exactly if one is drawn
\* sticking out and the other going in.
C20_ClosedEdgeNames ==
    /\ \A i \in DOMAIN boardEdges :
          shapes[i] # NoShape => \A s \in Sides : boardEdges[i][s] \in EdgeTypes
    /\ (compat # "unchecked" /\ \A i \in DOMAIN boardEdges : shapes[i] # NoShape)
          => (compat = "yes" <=> {shapes[1]["right"], shapes[2]["left"]} = {"out", "in"})


-----------------------------------------------------------------------------
(* Properties of the reference scenarios *)

\* Scenario A: the 2 x 2 grid of four regions of 100 x 100 px.
ScenarioA == GridTable(<<100, 100>>, <<100, 100>>)

\* The sides of the pieces that appear in an adjacency entry.
InternalSides(ps) ==
    LET entries == AdjacencyEntries(ps)
    IN  {<<en[1], en[2]>> : en \in entries} \cup {<<en[3], en[4]>> : en \in entries}

\* C21: the run over the 2 x 2 grid of four 100 x 100 regions finds exactly
\* 4 shared borders, gives each one tab and one blank, leaves exactly the 8
\* outer sides flat, and gives every piece the tab size 15.
C21_ScenarioA ==
    (regions = ScenarioA /\ pc = "done") =>
        LET entries == AdjacencyEntries(pieces)
            inner == InternalSides(pieces)
        IN  /\ Cardinality(entries) = 4
            /\ Len(reported) = 4
            /\ {reported[k] : k \in 1..4} = entries
            /\ \A en \in entries :
                  Complementary(edges[en[1]][en[2]], edges[en[3]][en[4]])
            /\ Cardinality(inner) = 8
            /\ \A i \in 1..4 : \A s \in Sides :
                  edges[i][s] = "flat" <=> <<i, s>> \notin inner
            /\ Cardinality({<<i, s>> \in (1..4) \X Sides : edges[i][s] = "flat"}) = 8
            /\ \A i \in 1..4 : offsets[i].tab = 15

\* The finished run over the 2 x 2 grid, its first piece with a tab of 15 px
\* to the right and below.
C21_Witness ==
    /\ regions = ScenarioA
    /\ pc = "done"
    /\ edges[1] = [top |-> "flat", left |-> "flat", right |-> "tab", bottom |-> "tab"]
    /\ offsets[1].right = 15 /\ offsets[1].bottom = 15
    /\ pieces[1].width = 115 /\ pieces[1].height = 115

\* The table is one row of three regions.
RowOfThree(rs) ==
    /\ Len(rs) = 3
    /\ \A i \in 1..3 : rs[i].y1 = rs[1].y1 /\ rs[i].y2 = rs[1].y2
    /\ rs[1].x2 = rs[2].x1 /\ rs[2].x2 = rs[3].x1

\* At the end of a run over one row of three regions each of the two shared
\* borders has one tab and one blank, and the tops, the bottoms and the two
\* ends of the row are flat.
RowBorders ==
    (RowOfThree(regions) /\ pc = "done") =>
        /\ Complementary(edges[1]["right"], edges[2]["left"])
        /\ Complementary(edges[2]["right"], edges[3]["left"])
        /\ \A i \in 1..3 : edges[i]["top"] = "flat" /\ edges[i]["bottom"] = "flat"
        /\ edges[1]["left"] = "flat" /\ edges[3]["right"] = "flat"
        /\ writes[2]["left"] = 1 /\ writes[2]["right"] = 1
        /\ \E k \in 1..Len(reported) : reported[k] = <<1, "right", 2, "left">>
        /\ \E k \in 1..Len(reported) : reported[k] = <<2, "right", 3, "left">>

\* The step of the loop for one border of the middle piece leaves the side
\* of its other border as it was.
SidesIndependent ==
    [][(RowOfThree(regions) /\ pc = "assign") =>
          /\ loop = <<1, 2>> => edges'[2]["right"] = edges[2]["right"]
          /\ loop = <<2, 3>> => edges'[2]["left"] = edges[2]["left"]]_vars

\* C22: in a run over one row of three regions each of the two shared
\* borders has one tab and one blank, the tops, the bottoms and the two
\* ends of the row are flat, and the two sides of the middle piece get their
\* types from their own borders, each without a change to the other (they
\* need not be equal).
C22_ScenarioB == []RowBorders /\ SidesIndependent

\* A finished run over a row of three whose middle piece has a blank on the
\* left and a tab on the right.
C22_Witness ==
    /\ RowOfThree(regions)
    /\ pc = "done"
    /\ edges[2]["left"] = "blank" /\ edges[2]["right"] = "tab"
    /\ edges[2]["left"] # edges[2]["right"]


-----------------------------------------------------------------------------
(* Properties of the game *)

\* C23: in a mounted board the loading of the piece images starts at most
\* once: after the first run of the loading effect no run starts loading
\* again.
C23_ImagesLoadOnce == loadStarts <= 1

\* The region table the pieces of the game were cut from.
TableOf(ps) ==
    CHOOSE rs \in GameTables :
        /\ Len(rs) = Len(ps)
        /\ \A i \in DOMAIN rs : rs[i].x1 = ps[i].cx /\ rs[i].y1 = ps[i].cy
        /\ rs[1].x2 - rs[1].x1 <= ps[1].width

\* The pieces p and q are neighbours in the solved puzzle.
TrueNeighbours(ps, p, q) ==
    LET rs == TableOf(ps)
    IN  \/ horizontally_adjacent(rs[p], rs[q]) \/ horizontally_adjacent(rs[q], rs[p])
        \/ vertically_adjacent(rs[p], rs[q]) \/ vertically_adjacent(rs[q], rs[p])

\* The piece p lies beside the piece q as in the solved puzzle, within the
\* tolerance of the edge test.
Beside(ps, p, q) ==
    /\ Abs((ps[q].x - ps[p].x) - (ps[q].cx - ps[p].cx)) < EdgeTolerance
    /\ Abs((ps[q].y - ps[p].y) - (ps[q].cy - ps[p].cy)) < EdgeTolerance

\* The neighbours of the solved puzzle the piece p lies beside.
NeighboursBeside(ps, p) ==
    {q \in DOMAIN ps : q # p /\ TrueNeighbours(ps, p, q) /\ Beside(ps, p, q)}

\* No piece that is not a neighbour of p in the solved puzzle passes the
\* connection test with p.
OnlyNeighboursInReach(ps, p) ==
    \A r \in DOMAIN ps :
        (r # p /\ canConnect(ps[p], ps[r])) => TrueNeighbours(ps, p, r)

\* C24: whatever the width and the height of the pieces, a piece that is
\* dropped beside a neighbour of the solved puzzle, within the tolerance
\* (and with no other piece in reach), is connected to a neighbour it lies
\* beside, which is what makes the puzzle completable.
C24_DropBesideNeighbourConnects ==
    [][(/\ handleMouseUp
        /\ NeighboursBeside(gamePieces, selectedPiece) # {}
        /\ OnlyNeighboursInReach(gamePieces, selectedPiece)) =>
          \E q \in NeighboursBeside(gamePieces, selectedPiece) :
              q \in Range(gamePieces'[selectedPiece].connectedPieces)]_vars

\* C25: two pieces are connected only if they are neighbours in the solved
\* puzzle; a tab and a blank of two other pieces do not join them.
C25_OnlyTrueNeighbours ==
    \A p \in DOMAIN gamePieces :
        \A q \in Range(gamePieces[p].connectedPieces) :
            TrueNeighbours(gamePieces, p, q)

\* The edges of p and q that face each other where the pieces lie: the edge
\* of p towards q and the edge of q towards p.
FacingEdges(p, q) ==
    IF Abs(q.x - p.x) >= Abs(q.y - p.y)
    THEN IF q.x > p.x THEN <<p.edges["right"], q.edges["left"]>>
                      ELSE <<p.edges["left"], q.edges["right"]>>
    ELSE IF q.y > p.y THEN <<p.edges["bottom"], q.edges["top"]>>
                      ELSE <<p.edges["top"], q.edges["bottom"]>>

C36_GroupsRigid ==
    \A p \in DOMAIN gamePieces : \A q \in Range(getConnectedGroup(p, gamePieces)) :
        /\ gamePieces[p].x - gamePieces[q].x = gamePieces[p].cx - gamePieces[q].cx
        /\ gamePieces[p].y - gamePieces[q].y = gamePieces[p].cy - gamePieces[q].cy

-----------------------------------------------------------------------------
(* Properties of the socket *)

\* C31: no more than maxReconnectAttempts reconnects are made in a row
\* without a socket opening in between, and the reconnect made when the
\* counter is n has been delayed min(1000 * 2^n, 30000) ms.
C31_BoundedBackoff ==
    /\ attemptsSinceOpen <= maxReconnectAttempts
    /\ \A k \in DOMAIN timers : timers[k].delay = ReconnectDelay(reconnectAttempts)

\* C32: a socket that disconnect has closed is not reconnected: no reconnect
\* timer is pending that outlived a disconnect, and none that the close
\* event of such a socket has set.
C32_NoReconnectAfterDisconnect ==
    \A k \in DOMAIN timers : ~timers[k].afterDisconnect /\ ~timers[k].survived

-----------------------------------------------------------------------------
(* Properties of the play *)

\* C33: isGameActive and isCompleted are never both true.
C33_ActiveOrCompleted == ~(isGameActive /\ isCompleted)

RestoredNext(saveData) ==
    /\ puzzleData' # NoPuzzle
    /\ \A p \in DOMAIN saveData.pieces : puzzleData'.pieces[p] = saveData.pieces[p]
    /\ gameStats'.hintsUsed = saveData.hintsUsed
    /\ gameStats'.score = saveData.score

\* C37: when loadSavedGame finishes without an error, every piece of the
\* saved game has its saved position, rotation and placement, and hintsUsed
\* and score are the saved ones, also when no puzzle was loaded before.
C37_SavedGameRestored ==
    [][\A k \in DOMAIN pendingLoads :
          (pendingLoads[k].kind = "saved" /\ LoadFinishes(k) /\ ~loadError') =>
              RestoredNext(pendingLoads[k].save)]_vars

-----------------------------------------------------------------------------
(* Properties of the order of the adjacency entries *)

\* C27: for a region table in which every side has at most one neighbour,
\* the edge assignment that results when the adjacency entries are
\* processed in any order is the one the loop gives in its own order.
C27_EntryOrderIrrelevant ==
    (pc = "ordered" /\ ~Ambiguous(regions)) =>
        edges = FlatFilled(AssignAll([i \in DOMAIN regions |-> UnsetEdges],
                                     [i \in DOMAIN regions |-> PieceOf(regions[i])],
                                     NextPair(1, 1, Len(regions))))

\* The entries of a table without ambiguity were processed in an order that
\* is not the order of the loop: the vertical entry of a region before its
\* horizontal entry.
C27_Witness ==
    /\ pc = "ordered"
    /\ ~Ambiguous(regions)
    /\ \E a, b \in DOMAIN reported :
          /\ a < b
          /\ reported[a][1] = reported[b][1]
          /\ reported[a][2] = "bottom" /\ reported[b][2] = "right"

-----------------------------------------------------------------------------
(* Properties of the polling *)

\* C28: after the stop function of a session has been called, none of
\* onUpdate, onComplete and onError is invoked for that session again, also
\* when a status or a result request was in flight at the call.
C28_NoCallbackAfterStop ==
    \A s \in DOMAIN sessions : sessions[s].late = 0

\* A session that still has something to do and whose stop function has not
\* been called.
Live(s) == sessions[s].at # "end" /\ ~sessions[s].stopped

\* C29: at any time at most one polling session of the hook is live.
C29_OneLiveSession ==
    Cardinality({s \in DOMAIN sessions : Live(s)}) <= 1

\* C30: retryCount of useRealTimeUpdates counts the retries made since the
\* last status update, they never exceed maxRetries, and canRetry tells
\* whether one more is allowed.
C30_RetryCountCounts ==
    hook = "rt" =>
        /\ hookState.retryCount = retries
        /\ retries <= maxRetries
        /\ canRetry <=> retries < maxRetries

=============================================================================
